---- MODULE Spec2Model ----
(***************************************************************************)
(* Model of app.py (Japanese-stock multi chart): the TTL-cached quote      *)
(* fetch get_stock_data, the VWAP band calculation calculate_vwap_bands,   *)
(* the watchlist files save_watchlist / load_watchlist, and the script run *)
(* of main() that selects up to twelve tickers and fetches them in a loop. *)
(***************************************************************************)
EXTENDS Integers, Sequences, FiniteSets, TLC

VARIABLES
    now,        \* wall clock in seconds (time.time() as seen by the cache)
    cache,      \* st.cache_data store of get_stock_data: set of entries
    log,        \* history: the calls made to get_stock_data / cache clear
    df,         \* the DataFrame object handed to calculate_vwap_bands
    dfBefore,   \* history: that object's content when the call was made
    bandPeriod, \* the period argument of calculate_vwap_bands
    banded,     \* the value calculate_vwap_bands returned (NotCalled before)
    fs,         \* the file system: the watchlists directory and its files
    expect,     \* history: per name, the list last saved (NoRecord if none)
    lastOp,     \* history: the last watchlist operation and what it returned
    proc,       \* per session, where it stands inside save_watchlist
    multiselect,        \* widget state of st.multiselect 'stock_multiselect'
    selected_stocks,    \* st.session_state.selected_stocks
    current_watchlist,  \* st.session_state.current_watchlist
    watchlist_selector, \* widget state of st.selectbox 'watchlist_selector'
    timeframe,          \* widget state of st.selectbox 'timeframe_selector'
    rerun,              \* st.rerun() was called: the next script run is due
    lastRun,            \* what the last script run fetched (tickers_data)
    quotes,             \* what the quote source answers now, per ticker
    events              \* history: number of user interactions so far

cacheVars == <<now, cache, log>>
bandVars == <<df, dfBefore, bandPeriod, banded>>
storeVars == <<fs, expect, lastOp, proc>>
sessionVars == <<multiselect, selected_stocks, current_watchlist, watchlist_selector,
                 timeframe, rerun, lastRun, quotes, events>>
vars == <<now, cache, log, df, dfBefore, bandPeriod, banded, fs, expect, lastOp, proc,
          multiselect, selected_stocks, current_watchlist, watchlist_selector,
          timeframe, rerun, lastRun, quotes, events>>

(***************************************************************************)
(* Bounds of the model                                                     *)
(***************************************************************************)
MaxCalls == 4       \* calls recorded in one explored history
MaxLen == 4         \* bars in a series handed to calculate_vwap_bands
MaxPeriod == 3      \* largest window handed to calculate_vwap_bands
MaxMembers == 2     \* members of a list handed to save_watchlist
NumOptions == 13    \* instruments of the catalog offered by the multiselect
NumFlaky == 1       \* instruments whose upstream fetch may fail
MaxEvents == 1      \* user interactions in one explored session

(***************************************************************************)
(* Strings.  A ticker is code + '.T'; strings are sequences of tokens.     *)
(***************************************************************************)
Ticker(code) == <<code, ".T">>

None == "None"

(***************************************************************************)
(* get_stock_data: @st.cache_data(ttl=300)                                 *)
(***************************************************************************)
TTL == 300

\* Mutant of CacheKey: the interval is left out of the key.
CacheKey_WithoutInterval(ticker, period, interval) == <<ticker, period>>

\* The cache key is the tuple of the call's arguments.
CacheKey(ticker, period, interval) == <<ticker, period, interval>>

\* An entry is usable while the clock is before its expiry time.
Fresh(e, t) == t < e.expires

CacheHit(c, key, t) == \E e \in c : e.key = key /\ Fresh(e, t)

CacheGet(c, key, t) == (CHOOSE e \in c : e.key = key /\ Fresh(e, t)).value

\* Storing replaces the key's entry and drops the entries that have expired.
CacheStore(c, key, value, t) ==
    {e \in c : e.key # key /\ Fresh(e, t)}
        \cup {[key |-> key, value |-> value, expires |-> t + TTL]}

\* The outcomes of yf.Ticker(ticker).history(...): it raises, it returns an
\* empty frame, or it returns bars.
Outcomes == {"raise", "empty", "bars"}

\* The body of get_stock_data: None for an empty frame and for any exception,
\* else the banded frame.
FetchBody(outcome) == IF outcome = "bars" THEN "df" ELSE None

\* One call of the cached function at time t: [data, cache, fetched].
get_stock_data(c, ticker, period, interval, t, outcome) ==
    LET key == CacheKey(ticker, period, interval) IN
    IF CacheHit(c, key, t)
    THEN [data |-> CacheGet(c, key, t), cache |-> c, fetched |-> FALSE]
    ELSE LET v == FetchBody(outcome) IN
         [data |-> v, cache |-> CacheStore(c, key, v, t), fetched |-> TRUE]

(***************************************************************************)
(* Numbers of the band calculation.  A float is an exact rational <<n, d>> *)
(* with d > 0 in lowest terms; NaN is <<0, 0>>.  a + k * sqrt(v) for       *)
(* rationals a and v is kept symbolically as <<a, k, v>>.                  *)
(***************************************************************************)
NaN == <<0, 0>>

Abs(x) == IF x < 0 THEN -x ELSE x

RECURSIVE GCD(_, _)
GCD(a, b) == IF b = 0 THEN a ELSE GCD(b, a % b)

Rat(n, d) ==
    LET g == GCD(Abs(n), Abs(d))
        s == IF d < 0 THEN -1 ELSE 1
    IN  <<(s * n) \div g, (s * d) \div g>>

RI(n) == <<n, 1>>

RAdd(x, y) ==
    IF x = NaN \/ y = NaN THEN NaN
    ELSE Rat(x[1] * y[2] + y[1] * x[2], x[2] * y[2])

RSub(x, y) ==
    IF x = NaN \/ y = NaN THEN NaN
    ELSE Rat(x[1] * y[2] - y[1] * x[2], x[2] * y[2])

RMul(x, y) ==
    IF x = NaN \/ y = NaN THEN NaN
    ELSE Rat(x[1] * y[1], x[2] * y[2])

\* Float division of two Series: here a zero denominator is a sum of
\* volumes that are all zero, so the numerator is zero or NaN and the
\* quotient is NaN.
RDiv(x, y) ==
    IF x = NaN \/ y = NaN \/ y[1] = 0 THEN NaN
    ELSE Rat(x[1] * y[2], x[2] * y[1])

\* base + k * np.sqrt(v)
Surd(base, k, v) == IF base = NaN \/ v = NaN THEN NaN ELSE <<base, k, v>>

RECURSIVE RSum(_, _, _)
RSum(col, lo, hi) ==
    IF lo > hi THEN RI(0) ELSE RAdd(col[lo], RSum(col, lo + 1, hi))

\* Mutant of RollingSum: sums the partial window of the first bars
\* (min_periods=1).
RollingSum_PartialWindow(col, w) ==
    [i \in DOMAIN col |->
        LET lo == IF i < w THEN 1 ELSE i - w + 1 IN
        IF \E j \in lo..i : col[j] = NaN THEN NaN ELSE RSum(col, lo, i)]

\* Series.rolling(window=w).sum(): NaN until w observations are in the
\* window and while any of them is NaN (min_periods defaults to w).
RollingSum(col, w) ==
    [i \in DOMAIN col |->
        IF i < w \/ (\E j \in (i - w + 1)..i : col[j] = NaN)
        THEN NaN
        ELSE RSum(col, i - w + 1, i)]

(***************************************************************************)
(* calculate_vwap_bands(df, period).  A DataFrame is a record of columns,  *)
(* each a sequence with one value per bar.                                 *)
(***************************************************************************)
BarColumns == {"High", "Low", "Close", "Volume"}

BandColumns ==
    {"vwap", "std_dev", "vwap_upper_1", "vwap_lower_1", "vwap_upper_2", "vwap_lower_2"}

NRows(d) == Len(d.High)

\* The frame after the column assignments of the function body.
WithBands(d, w) ==
    LET rows == 1..NRows(d)
        typical_price == [i \in rows |-> Rat(d.High[i] + d.Low[i] + d.Close[i], 3)]
        volume == [i \in rows |-> RI(d.Volume[i])]
        price_volume == [i \in rows |-> RMul(typical_price[i], volume[i])]
        sum_pv == RollingSum(price_volume, w)
        sum_vol == RollingSum(volume, w)
        vwap == [i \in rows |-> RDiv(sum_pv[i], sum_vol[i])]
        deviation == [i \in rows |-> RSub(typical_price[i], vwap[i])]
        squared_dev == [i \in rows |-> RMul(deviation[i], deviation[i])]
        weighted_squared_dev == [i \in rows |-> RMul(squared_dev[i], volume[i])]
        sum_weighted_squared_dev == RollingSum(weighted_squared_dev, w)
        variance == [i \in rows |-> RDiv(sum_weighted_squared_dev[i], sum_vol[i])]
    IN  [typical_price |-> typical_price,
         price_volume |-> price_volume,
         vwap |-> vwap,
         deviation |-> deviation,
         squared_dev |-> squared_dev,
         weighted_squared_dev |-> weighted_squared_dev,
         variance |-> variance,
         std_dev |-> [i \in rows |-> Surd(RI(0), 1, variance[i])],
         vwap_upper_1 |-> [i \in rows |-> Surd(vwap[i], 1, variance[i])],
         vwap_lower_1 |-> [i \in rows |-> Surd(vwap[i], -1, variance[i])],
         vwap_upper_2 |-> [i \in rows |-> Surd(vwap[i], 2, variance[i])],
         vwap_lower_2 |-> [i \in rows |-> Surd(vwap[i], -2, variance[i])]]
        @@ d

\* The function assigns into the frame it was given and returns that frame;
\* a frame shorter than the window is returned as it is.
calculate_vwap_bands(d, w) ==
    IF NRows(d) < w THEN d ELSE WithBands(d, w)

\* The frames handed to the function in the model.
Prices == { <<1, 1, 1>>, <<5, 2, 5>> }      \* (High, Low, Close)
Volumes == {0, 1, 2}

Frame(hlc, vol) ==
    [High |-> [i \in DOMAIN hlc |-> hlc[i][1]],
     Low |-> [i \in DOMAIN hlc |-> hlc[i][2]],
     Close |-> [i \in DOMAIN hlc |-> hlc[i][3]],
     Volume |-> vol]

EmptyFrame == Frame(<<>>, <<>>)

Frames ==
    UNION { { Frame(hlc, vol) : hlc \in [1..n -> Prices], vol \in [1..n -> Volumes] }
            : n \in 0..MaxLen }

NotCalled == [High |-> <<-1>>]

(***************************************************************************)
(* Watchlist files.  The file system is [dir, files]: whether the          *)
(* directory 'watchlists' exists, and the text of each file in it, keyed   *)
(* by watchlist name.  A text is a sequence of JSON tokens.                *)
(***************************************************************************)
LBracket == <<"[">>
RBracket == <<"]">>
Comma == <<",">>
Quote(str) == <<"\"">> \o str \o <<"\"">>
IsLiteral(tok) == Len(tok) >= 2 /\ tok[1] = "\"" /\ tok[Len(tok)] = "\""
Unquote(tok) == SubSeq(tok, 2, Len(tok) - 1)

RECURSIVE DumpItems(_)
DumpItems(tickers) ==
    IF tickers = <<>> THEN <<>>
    ELSE IF Len(tickers) = 1 THEN <<Quote(tickers[1])>>
    ELSE <<Quote(tickers[1]), Comma>> \o DumpItems(Tail(tickers))

\* json.dump(tickers, f): the text of a list of strings.
JsonDump(tickers) == <<LBracket>> \o DumpItems(tickers) \o <<RBracket>>

\* json.load(f) accepts the text of a list of strings.
JsonValid(text) ==
    /\ Len(text) >= 2
    /\ text[1] = LBracket /\ text[Len(text)] = RBracket
    /\ LET inner == SubSeq(text, 2, Len(text) - 1) IN
       \/ inner = <<>>
       \/ /\ Len(inner) % 2 = 1
          /\ \A i \in 1..Len(inner) :
                IF i % 2 = 1 THEN IsLiteral(inner[i]) ELSE inner[i] = Comma

JsonLoad(text) ==
    LET inner == SubSeq(text, 2, Len(text) - 1) IN
    [i \in 1..((Len(inner) + 1) \div 2) |-> Unquote(inner[2 * i - 1])]

NoFiles == [n \in {} |-> <<>>]

FileExists(f, name) == f.dir /\ name \in DOMAIN f.files

\* os.makedirs('watchlists')
MakeDirs(f) == [f EXCEPT !.dir = TRUE]

\* Mutant of OpenForWrite: the file is opened without truncating it.
OpenForWrite_NoTruncate(f, name) ==
    IF name \in DOMAIN f.files THEN f
    ELSE [f EXCEPT !.files = (name :> <<>>) @@ f.files]

\* open(path, 'w'): creates the file, or empties the one that is there.
OpenForWrite(f, name) == [f EXCEPT !.files = (name :> <<>>) @@ f.files]

\* The text json.dump produced is written from position 0 when the file is
\* closed; what the file holds beyond it stays.
WriteAndClose(f, name, text) ==
    IF name \notin DOMAIN f.files THEN f
    ELSE LET old == f.files[name] IN
         [f EXCEPT !.files[name] = text \o SubSeq(old, Len(text) + 1, Len(old))]

save_watchlist(f, name, tickers) ==
    LET f1 == IF ~f.dir THEN MakeDirs(f) ELSE f
        f2 == OpenForWrite(f1, name)
    IN  WriteAndClose(f2, name, JsonDump(tickers))

\* load_watchlist never raises: any exception (no file, text json.load
\* rejects) gives the empty list.  The result is [error, members].
load_watchlist(f, name) ==
    IF FileExists(f, name) /\ JsonValid(f.files[name])
    THEN [error |-> "none", members |-> JsonLoad(f.files[name])]
    ELSE [error |-> "none", members |-> <<>>]

\* os.remove('watchlists/<name>.json')
RemoveFile(f, name) ==
    [f EXCEPT !.files = [n \in (DOMAIN f.files) \ {name} |-> f.files[n]]]

(***************************************************************************)
(* main(): the script that Streamlit runs from top to bottom on every user *)
(* interaction and after every st.rerun().                                 *)
(***************************************************************************)
\* The codes of the catalog (data_j.csv), the quick-selection ones first.
AllCodes == << "7203", "6758", "8306", "6861", "9984", "4689", "3659", "4385",
               "8316", "8411", "8001", "8058", "1301", "1332", "1333", "1376" >>

Codes == SubSeq(AllCodes, 1, NumOptions)

\* f"{row['code']} - {row['name']}"; the name of a stock is kept as the two
\* tokens "name", code.
Option(code) == <<code, " - ", "name", code>>

\* The search filters are left at values that list the whole catalog.
available_options == [i \in 1..NumOptions |-> Option(Codes[i])]

\* opt.split(' - ')[0] + '.T'
OptionTicker(opt) == Ticker(opt[1])

\* stock in opt: substring test.
Contains(sub, str) ==
    \E i \in 1..(Len(str) - Len(sub) + 1) : SubSeq(str, i, i + Len(sub) - 1) = sub

\* default=[opt for opt in available_options
\*          if any(stock in opt for stock in st.session_state.selected_stocks)]
DefaultSelection(stocks) ==
    SelectSeq(available_options,
              LAMBDA opt : \E i \in 1..Len(stocks) : Contains(stocks[i], opt))

Unset == <<<<"unset">>>>

\* The value st.multiselect returns: the widget's state, or the default on
\* the run that first shows the widget.
MultiselectValue(ms, stocks) == IF ms = Unset THEN DefaultSelection(stocks) ELSE ms

MaxSelections == 12

\* Mutant of AddAllowed: the multiselect takes any number of options.
AddAllowed_NoLimit(value) == TRUE

\* max_selections=12: the widget takes another option only below the limit.
AddAllowed(value) == Len(value) < MaxSelections

WatchlistCap == 12

\* watchlist_tickers[:12]
FirstTwelve(tickers) ==
    SubSeq(tickers, 1, IF Len(tickers) < WatchlistCap THEN Len(tickers) ELSE WatchlistCap)

get_watchlist_names(f) == IF f.dir THEN DOMAIN f.files ELSE {}

timeframe_options ==
    [daily |-> <<"3mo", "1d">>, weekly |-> <<"1y", "1wk">>, monthly |-> <<"2y", "1mo">>]

popular_stocks ==
    [large |-> [i \in 1..4 |-> Ticker(AllCodes[i])],
     it |-> [i \in 1..4 |-> Ticker(AllCodes[4 + i])],
     finance |-> [i \in 1..4 |-> Ticker(AllCodes[8 + i])]]

\* The fetch loop over st.session_state.selected_stocks: tickers_data gets
\* one entry per ticker; calls lists the upstream fetches that were invoked.
RECURSIVE FetchLoop(_, _, _, _, _)
FetchLoop(tickers, c, tf, t, outcomes) ==
    IF tickers = <<>>
    THEN [cache |-> c, tickers_data |-> <<>>, calls |-> <<>>]
    ELSE LET ticker == Head(tickers)
             r == get_stock_data(c, ticker, timeframe_options[tf][1],
                                 timeframe_options[tf][2], t, outcomes[ticker])
             rest == FetchLoop(Tail(tickers), r.cache, tf, t, outcomes)
         IN  [cache |-> rest.cache,
              tickers_data |-> <<[ticker |-> ticker, data |-> r.data]>> \o rest.tickers_data,
              calls |-> (IF r.fetched
                         THEN <<[ticker |-> ticker, outcome |-> outcomes[ticker]]>>
                         ELSE <<>>) \o rest.calls]

AllTickers == {Ticker(AllCodes[i]) : i \in 1..Len(AllCodes)}

\* The quote source has bars for every ticker.
AllBars == [t \in AllTickers |-> "bars"]

NoRun ==
    [looped |-> FALSE, batch |-> <<>>, tickers_data |-> <<>>, calls |-> <<>>,
     upstream |-> AllBars, loaded |-> ""]

\* One run of the script.  ms, ws, tf are the widget states the run starts
\* with, button the button that was clicked ("none" if none), arg its text
\* or category.  The result is the session after the run.
main(ms, ws, tf, button, arg) ==
    LET value == MultiselectValue(ms, selected_stocks)
        stocks == [i \in 1..Len(value) |-> OptionTicker(value[i])]
        names == get_watchlist_names(fs)
        selected_watchlist == IF ws \in names THEN ws ELSE ""
        at387 == [multiselect |-> value, selected_stocks |-> stocks,
                  current_watchlist |-> current_watchlist, watchlist_selector |-> ws,
                  cache |-> cache, fs |-> fs, rerun |-> TRUE, lastRun |-> NoRun]
        at412 == [at387 EXCEPT !.watchlist_selector = selected_watchlist]
    IN  IF button = "clear"
        THEN [at387 EXCEPT !.selected_stocks = <<>>]
        ELSE IF button = "refresh"
        THEN [at387 EXCEPT !.cache = {}]
        ELSE IF selected_watchlist # "" /\ selected_watchlist # current_watchlist
        THEN [at412 EXCEPT
                 !.selected_stocks =
                     FirstTwelve(load_watchlist(fs, selected_watchlist).members),
                 !.current_watchlist = selected_watchlist,
                 !.lastRun = [NoRun EXCEPT !.loaded = selected_watchlist]]
        ELSE IF selected_watchlist # "" /\ button = "overwrite"
        THEN [at412 EXCEPT !.fs = save_watchlist(fs, selected_watchlist, stocks)]
        ELSE IF selected_watchlist # "" /\ button = "delete"
        THEN [at412 EXCEPT !.fs = RemoveFile(fs, selected_watchlist),
                           !.current_watchlist = ""]
        ELSE IF button = "create" /\ arg # "" /\ stocks # <<>>
        THEN [at412 EXCEPT !.fs = save_watchlist(fs, arg, stocks),
                           !.current_watchlist = arg]
        ELSE IF stocks # <<>>
        THEN LET loop == FetchLoop(stocks, cache, tf, now, quotes) IN
             [at412 EXCEPT !.cache = loop.cache, !.rerun = FALSE,
                           !.lastRun = [looped |-> TRUE, batch |-> stocks,
                                        tickers_data |-> loop.tickers_data,
                                        calls |-> loop.calls,
                                        upstream |-> quotes, loaded |-> ""]]
        ELSE IF button = "quick"
        THEN [at412 EXCEPT !.selected_stocks = popular_stocks[arg]]
        ELSE [at412 EXCEPT !.rerun = FALSE]

SessionIdle ==
    /\ multiselect = Unset /\ selected_stocks = <<>>
    /\ current_watchlist = "" /\ watchlist_selector = ""
    /\ timeframe = "daily" /\ rerun = FALSE /\ lastRun = NoRun /\ events = 0
    /\ quotes = AllBars

(***************************************************************************)
(* Specification SpecStore: save, load and remove, one whole call at a     *)
(* time                                                                    *)
(***************************************************************************)
Names == {"core", "tech"}

StoreTickers == {Ticker("7203"), Ticker("6758")}

MemberLists == UNION { [1..n -> StoreTickers] : n \in 0..MaxMembers }

NoRecord == <<<<"no record">>>>

NoOp == [op |-> "none", name |-> "", members |-> <<>>, result |-> <<>>,
         error |-> "none", before |-> [dir |-> FALSE, files |-> NoFiles],
         allowed |-> {}]

Sessions == {1, 2}

IdleProc == [pc |-> "idle", name |-> "", members |-> <<>>]

StoreIdle ==
    /\ fs = [dir |-> FALSE, files |-> NoFiles]
    /\ expect = [n \in Names |-> NoRecord]
    /\ lastOp = NoOp
    /\ proc = [p \in Sessions |-> IdleProc]

CacheIdle == now = 0 /\ cache = {} /\ log = <<>>

BandsIdle ==
    df = EmptyFrame /\ dfBefore = EmptyFrame /\ bandPeriod = 1 /\ banded = NotCalled

InitStore == StoreIdle /\ CacheIdle /\ BandsIdle /\ SessionIdle

Save(name, tickers) ==
    /\ fs' = save_watchlist(fs, name, tickers)
    /\ expect' = [expect EXCEPT ![name] = tickers]
    /\ lastOp' = [NoOp EXCEPT !.op = "save", !.name = name, !.members = tickers,
                              !.before = fs]
    /\ UNCHANGED <<proc, cacheVars, bandVars, sessionVars>>

Load(name) ==
    /\ LET r == load_watchlist(fs, name) IN
       lastOp' = [NoOp EXCEPT !.op = "load", !.name = name, !.result = r.members,
                              !.error = r.error, !.before = fs]
    /\ UNCHANGED <<fs, expect, proc, cacheVars, bandVars, sessionVars>>

Remove(name) ==
    /\ FileExists(fs, name)
    /\ fs' = RemoveFile(fs, name)
    /\ expect' = [expect EXCEPT ![name] = NoRecord]
    /\ lastOp' = [NoOp EXCEPT !.op = "remove", !.name = name, !.before = fs]
    /\ UNCHANGED <<proc, cacheVars, bandVars, sessionVars>>

NextStore ==
    \/ \E n \in Names, m \in MemberLists : Save(n, m)
    \/ \E n \in Names : Load(n)
    \/ \E n \in Names : Remove(n)

SpecStore == InitStore /\ [][NextStore]_vars

(***************************************************************************)
(* Specification SpecConc: two sessions; save_watchlist advances one file  *)
(* system call at a time, load_watchlist reads the file in one step        *)
(***************************************************************************)
\* The one name the two sessions contend for, and the lists they save.
ConcNames == {"core"}

ConcLists == { <<>>, <<Ticker("7203")>>, <<Ticker("6758"), Ticker("7203")>> }

Saving(p, name) == proc[p].pc \in {"mkdir", "open", "write"} /\ proc[p].name = name

\* if not os.path.exists('watchlists')
SaveCheck(p, name, tickers) ==
    /\ proc[p].pc = "idle"
    /\ proc' = [proc EXCEPT ![p] = [pc |-> IF fs.dir THEN "open" ELSE "mkdir",
                                    name |-> name, members |-> tickers]]
    /\ UNCHANGED <<fs, expect, lastOp, cacheVars, bandVars, sessionVars>>

\* os.makedirs('watchlists') raises FileExistsError when another session has
\* made the directory meanwhile: the save ends there.
SaveMkdir(p) ==
    /\ proc[p].pc = "mkdir"
    /\ IF fs.dir
       THEN /\ proc' = [proc EXCEPT ![p] = IdleProc]
            /\ fs' = fs
       ELSE /\ proc' = [proc EXCEPT ![p].pc = "open"]
            /\ fs' = MakeDirs(fs)
    /\ UNCHANGED <<expect, lastOp, cacheVars, bandVars, sessionVars>>

SaveOpen(p) ==
    /\ proc[p].pc = "open"
    /\ fs' = OpenForWrite(fs, proc[p].name)
    /\ proc' = [proc EXCEPT ![p].pc = "write"]
    /\ UNCHANGED <<expect, lastOp, cacheVars, bandVars, sessionVars>>

\* json.dump and the close of the with block.  expect keeps the list whose
\* write was completed last.
SaveWrite(p) ==
    /\ proc[p].pc = "write"
    /\ fs' = WriteAndClose(fs, proc[p].name, JsonDump(proc[p].members))
    /\ proc' = [proc EXCEPT ![p] = IdleProc]
    /\ expect' = [expect EXCEPT ![proc[p].name] = proc[p].members]
    /\ UNCHANGED <<lastOp, cacheVars, bandVars, sessionVars>>

\* A load by session p; allowed is the complete lists a reader may see: the
\* one whose write was completed last, and the ones being saved.
LoadDuring(p, name) ==
    /\ proc[p].pc = "idle"
    /\ LET r == load_watchlist(fs, name) IN
       lastOp' = [NoOp EXCEPT !.op = "load", !.name = name, !.result = r.members,
                              !.error = r.error,
                              !.allowed = {expect[name]} \cup
                                  {proc[q].members : q \in {q \in Sessions : Saving(q, name)}}]
    /\ UNCHANGED <<fs, expect, proc, cacheVars, bandVars, sessionVars>>

NextConc ==
    \/ \E p \in Sessions, n \in ConcNames, m \in ConcLists : SaveCheck(p, n, m)
    \/ \E p \in Sessions : SaveMkdir(p)
    \/ \E p \in Sessions : SaveOpen(p)
    \/ \E p \in Sessions : SaveWrite(p)
    \/ \E p \in Sessions, n \in ConcNames : LoadDuring(p, n)

SpecConc == InitStore /\ [][NextConc]_vars

(***************************************************************************)
(* Specification SpecBands: one call of calculate_vwap_bands on a frame    *)
(***************************************************************************)
InitBands ==
    /\ df \in Frames
    /\ dfBefore = df
    /\ bandPeriod \in 1..MaxPeriod
    /\ banded = NotCalled
    /\ CacheIdle /\ StoreIdle /\ SessionIdle

\* banded = calculate_vwap_bands(df, period): the argument object df is the
\* object the function assigns into and returns.
Calculate ==
    /\ banded = NotCalled
    /\ banded' = calculate_vwap_bands(df, bandPeriod)
    /\ df' = banded'
    /\ UNCHANGED <<dfBefore, bandPeriod, cacheVars, storeVars, sessionVars>>

NextBands == Calculate

SpecBands == InitBands /\ [][NextBands]_vars

(***************************************************************************)
(* Specification SpecCache: calls of get_stock_data over time              *)
(***************************************************************************)
\* A base key and three keys that each differ from it in one component.
ReqKeys == { <<Ticker("7203"), "3mo", "1d">>, <<Ticker("6758"), "3mo", "1d">>,
             <<Ticker("7203"), "1y", "1d">>, <<Ticker("7203"), "3mo", "1wk">> }

\* The instants at which the clock is looked at: around one TTL and two.
Instants == {0, 299, 300, 600}

GetEntry(key, t, r) ==
    [op |-> "get", key |-> key, at |-> t, fetched |-> r.fetched, data |-> r.data]

ClearEntry(t) ==
    [op |-> "clear", key |-> <<>>, at |-> t, fetched |-> FALSE, data |-> None]

InitCache ==
    /\ CacheIdle
    /\ BandsIdle /\ StoreIdle /\ SessionIdle

Request(k, outcome) ==
    /\ Len(log) < MaxCalls
    /\ LET r == get_stock_data(cache, k[1], k[2], k[3], now, outcome) IN
       /\ cache' = r.cache
       /\ log' = Append(log, GetEntry(k, now, r))
    /\ UNCHANGED <<now, bandVars, storeVars, sessionVars>>

\* st.cache_data.clear()
ClearCache ==
    /\ Len(log) < MaxCalls
    /\ cache' = {}
    /\ log' = Append(log, ClearEntry(now))
    /\ UNCHANGED <<now, bandVars, storeVars, sessionVars>>

Tick(t) ==
    /\ t > now
    /\ now' = t
    /\ UNCHANGED <<cache, log, bandVars, storeVars, sessionVars>>

NextCache ==
    \/ \E k \in ReqKeys, o \in Outcomes : Request(k, o)
    \/ ClearCache
    \/ \E t \in Instants : Tick(t)

SpecCache == InitCache /\ [][NextCache]_vars

(***************************************************************************)
(* Specification SpecApp: one browser session of the app                   *)
(***************************************************************************)
\* The selections the user builds: options added in catalog order, upward
\* from the first or downward from the last.
Ascending(n) == [i \in 1..n |-> available_options[i]]
Descending(n) == [i \in 1..n |-> available_options[NumOptions + 1 - i]]

Addable(value) ==
    IF value = <<>> THEN {available_options[1], available_options[NumOptions]}
    ELSE IF value[1] = available_options[1]
    THEN {available_options[i] : i \in {Len(value) + 1} \cap (1..NumOptions)}
    ELSE {available_options[i] : i \in {NumOptions - Len(value)} \cap (1..NumOptions)}

\* The selections a session starts from: short ones and nearly full ones.
BuiltSizes == {0, 1, 2, MaxSelections - 1, MaxSelections}

BuiltSelections ==
    {Ascending(n) : n \in BuiltSizes} \cup {Descending(n) : n \in BuiltSizes}

\* The watchlists directory as earlier sessions may have left it.
StoredFileSystems ==
    { [dir |-> FALSE, files |-> NoFiles],
      save_watchlist([dir |-> FALSE, files |-> NoFiles], "core",
                     [i \in 1..3 |-> Ticker(Codes[i + 1])]) }

\* The quote source has bars, except that it may fail for the flaky
\* instruments.
FlakyTickers == {Ticker(Codes[i]) : i \in 1..NumFlaky}

\* A session that has just been opened (its first run is due), or one in
\* which the user has built a selection, possibly has picked the stored
\* list, and has just pressed the refresh button: line 387 has set
\* selected_stocks, the cache is cleared and the rerun is due.
InitApp ==
    /\ CacheIdle /\ BandsIdle
    /\ expect = [n \in Names |-> NoRecord] /\ lastOp = NoOp
    /\ proc = [p \in Sessions |-> IdleProc]
    /\ fs \in StoredFileSystems
    /\ multiselect \in {Unset} \cup BuiltSelections
    /\ selected_stocks = IF multiselect = Unset THEN <<>>
                         ELSE [i \in 1..Len(multiselect) |-> OptionTicker(multiselect[i])]
    /\ watchlist_selector \in
          IF multiselect = Unset THEN {""} ELSE {""} \cup get_watchlist_names(fs)
    /\ current_watchlist = watchlist_selector
    /\ timeframe = "daily" /\ rerun = TRUE /\ lastRun = NoRun /\ events = 0
    /\ quotes = AllBars

Apply(r, tf) ==
    /\ multiselect' = r.multiselect
    /\ selected_stocks' = r.selected_stocks
    /\ current_watchlist' = r.current_watchlist
    /\ watchlist_selector' = r.watchlist_selector
    /\ timeframe' = tf
    /\ cache' = r.cache
    /\ fs' = r.fs
    /\ rerun' = r.rerun
    /\ lastRun' = r.lastRun
    /\ UNCHANGED <<now, log, bandVars, expect, lastOp, proc, quotes>>

UserEvent == ~rerun /\ events < MaxEvents /\ events' = events + 1

\* The run that st.rerun() asked for, and the first run of a session.
Rerun ==
    /\ rerun
    /\ Apply(main(multiselect, watchlist_selector, timeframe, "none", ""), timeframe)
    /\ UNCHANGED events

\* The user adds an option to the multiselect.
SelectAdd(opt) ==
    /\ UserEvent
    /\ opt \in Addable(multiselect)
    /\ AddAllowed(multiselect)
    /\ Apply(main(Append(multiselect, opt), watchlist_selector, timeframe,
                  "none", ""), timeframe)

\* The user removes the option added last.
SelectRemove ==
    /\ UserEvent
    /\ multiselect # <<>>
    /\ Apply(main(SubSeq(multiselect, 1, Len(multiselect) - 1), watchlist_selector,
                  timeframe, "none", ""), timeframe)

ClickClear ==
    /\ UserEvent
    /\ Apply(main(multiselect, watchlist_selector, timeframe, "clear", ""), timeframe)

ClickRefresh ==
    /\ UserEvent
    /\ Apply(main(multiselect, watchlist_selector, timeframe, "refresh", ""), timeframe)

\* The user picks an entry of the 'saved lists' selectbox.
PickWatchlist(name) ==
    /\ UserEvent
    /\ name \in get_watchlist_names(fs) \cup {""}
    /\ name # watchlist_selector
    /\ Apply(main(multiselect, name, timeframe, "none", ""), timeframe)

\* The two buttons shown while a saved list is picked.
ClickOverwrite ==
    /\ UserEvent
    /\ watchlist_selector # ""
    /\ Apply(main(multiselect, watchlist_selector, timeframe, "overwrite", ""),
             timeframe)

ClickDelete ==
    /\ UserEvent
    /\ watchlist_selector # ""
    /\ Apply(main(multiselect, watchlist_selector, timeframe, "delete", ""),
             timeframe)

\* 'create and save the current selection' with the typed list name.
ClickCreate(name) ==
    /\ UserEvent
    /\ Apply(main(multiselect, watchlist_selector, timeframe, "create", name),
             timeframe)

ChangeTimeframe(tf) ==
    /\ UserEvent
    /\ tf # timeframe
    /\ Apply(main(multiselect, watchlist_selector, tf, "none", ""), tf)

\* The quick-selection buttons, shown while nothing is selected.
ClickQuick(category) ==
    /\ UserEvent
    /\ selected_stocks = <<>>
    /\ Apply(main(multiselect, watchlist_selector, timeframe, "quick", category),
             timeframe)

\* The user comes back when the cached quotes have expired.
Wait(t) ==
    /\ ~rerun
    /\ t >= now + TTL
    /\ now' = t
    /\ UNCHANGED <<cache, log, bandVars, storeVars, sessionVars>>

\* The quote source starts or stops failing for a flaky instrument.
QuoteSourceChanges(t, o) ==
    /\ quotes[t] # o
    /\ quotes' = [quotes EXCEPT ![t] = o]
    /\ UNCHANGED <<cacheVars, bandVars, storeVars, multiselect, selected_stocks,
                   current_watchlist, watchlist_selector, timeframe, rerun, lastRun,
                   events>>

NextApp ==
    \/ Rerun
    \/ \E opt \in Addable(multiselect) : SelectAdd(opt)
    \/ SelectRemove
    \/ ClickClear
    \/ ClickRefresh
    \/ \E n \in Names \cup {""} : PickWatchlist(n)
    \/ ClickOverwrite
    \/ ClickDelete
    \/ \E n \in Names \cup {""} : ClickCreate(n)
    \/ \E tf \in DOMAIN timeframe_options : ChangeTimeframe(tf)
    \/ \E c \in DOMAIN popular_stocks : ClickQuick(c)
    \/ \E t \in Instants : Wait(t)
    \/ \E t \in FlakyTickers, o \in {"bars", "raise"} : QuoteSourceChanges(t, o)

SpecApp == InitApp /\ [][NextApp]_vars

(***************************************************************************)
(* Claims about the quote cache (checked under SpecCache)                  *)
(***************************************************************************)
IsGet(j) == log[j].op = "get"

\* No cache clear is logged strictly between calls i and j.
NoClearBetween(i, j) == \A m \in (i + 1)..(j - 1) : log[m].op # "clear"

\* Call i invoked the upstream fetch for call j's key and the cache was not
\* cleared in between.
IsEarlierFetch(i, j) ==
    /\ i < j /\ IsGet(i) /\ log[i].key = log[j].key /\ log[i].fetched
    /\ NoClearBetween(i, j)

HasEarlierFetch(j) == \E i \in 1..(j - 1) : IsEarlierFetch(i, j)

\* The most recent such fetch.
LastFetch(j) ==
    CHOOSE i \in 1..(j - 1) :
        IsEarlierFetch(i, j) /\ \A m \in 1..(j - 1) : IsEarlierFetch(m, j) => m <= i

\* C1: a request for a key issued less than 300 seconds after the upstream
\* fetch of that same key does not invoke the fetch again (the two requests
\* share one fetch); a request issued 300 seconds or more after it invokes
\* the fetch again; and a request for a key that was never fetched, whatever
\* was fetched for keys differing in ticker, period or interval, invokes the
\* fetch (keys are independent entries).
C1_OneFetchPerTTL ==
    \A j \in 1..Len(log) : IsGet(j) =>
        IF HasEarlierFetch(j)
        THEN log[j].fetched <=> (log[j].at >= log[LastFetch(j)].at + TTL)
        ELSE log[j].fetched

\* Witness: the same key is fetched, hit within the TTL, and fetched again
\* after the TTL, while another key requested within the TTL is fetched.
C1_Witness ==
    \E i, j, m, n \in 1..Len(log) :
        /\ i < j /\ j < m
        /\ IsGet(i) /\ IsGet(j) /\ IsGet(m) /\ IsGet(n)
        /\ log[i].key = log[j].key /\ log[j].key = log[m].key
        /\ log[i].fetched /\ ~log[j].fetched /\ log[m].fetched
        /\ log[j].at < log[i].at + TTL /\ log[m].at >= log[i].at + TTL
        /\ log[j].at > log[i].at
        /\ i < n /\ log[n].key # log[i].key /\ log[n].at < log[i].at + TTL
        /\ log[n].fetched

\* The get call before j for the same key, with no clear in between.
IsEarlierGet(i, j) ==
    /\ i < j /\ IsGet(i) /\ log[i].key = log[j].key /\ NoClearBetween(i, j)

IsPrevGet(i, j) ==
    IsEarlierGet(i, j) /\ \A m \in (i + 1)..(j - 1) : ~IsEarlierGet(m, j)

\* C2 (as claimed): a failed upstream fetch stores no cache entry, so the
\* very next request for the same key invokes the upstream fetch again, even
\* within the TTL.
C2_FailureNotCached ==
    \A i, j \in 1..Len(log) :
        (IsGet(j) /\ IsPrevGet(i, j) /\ log[i].fetched /\ log[i].data = None)
            => log[j].fetched

(***************************************************************************)
(* Claims about the band calculation (checked under SpecBands)             *)
(***************************************************************************)
Called == banded # NotCalled

HasValue(d, c, i) == c \in DOMAIN d /\ d[c][i] # NaN

\* The reference algorithm, written from the formulas of the claim.
TP(d, j) == Rat(d.High[j] + d.Low[j] + d.Close[j], 3)

RefVolume(d, i, w) == RSum([j \in 1..NRows(d) |-> RI(d.Volume[j])], i - w + 1, i)

RefVwap(d, i, w) ==
    RDiv(RSum([j \in 1..NRows(d) |-> RMul(TP(d, j), RI(d.Volume[j]))], i - w + 1, i),
         RefVolume(d, i, w))

RefVariance(d, i, w) ==
    LET m == RefVwap(d, i, w)
        term(j) == RMul(RI(d.Volume[j]), RMul(RSub(TP(d, j), m), RSub(TP(d, j), m)))
    IN  RDiv(RSum([j \in 1..NRows(d) |-> term(j)], i - w + 1, i), RefVolume(d, i, w))

PositiveVolumes(d) == \A i \in 1..NRows(d) : d.Volume[i] > 0

\* C5 (as claimed): for a series of at least W bars with positive volumes,
\* every bar from the W-th on has vwap = sum(tp*volume)/sum(volume) over its
\* window, variance = sum(volume*(tp - vwap_i)^2)/sum(volume) over the same
\* window with every tp measured against that window's own vwap, and the
\* four bands vwap +/- stdDev and vwap +/- 2*stdDev.
C5_WindowVariance ==
    (Called /\ NRows(dfBefore) >= bandPeriod /\ PositiveVolumes(dfBefore)) =>
        \A i \in bandPeriod..NRows(dfBefore) :
            LET m == RefVwap(dfBefore, i, bandPeriod)
                v == RefVariance(dfBefore, i, bandPeriod)
            IN  /\ banded.vwap[i] = m
                /\ banded.variance[i] = v
                /\ banded.std_dev[i] = Surd(RI(0), 1, v)
                /\ banded.vwap_upper_1[i] = Surd(m, 1, v)
                /\ banded.vwap_lower_1[i] = Surd(m, -1, v)
                /\ banded.vwap_upper_2[i] = Surd(m, 2, v)
                /\ banded.vwap_lower_2[i] = Surd(m, -2, v)

\* The part of C5 about the mean alone.
C5_VwapOnly ==
    (Called /\ NRows(dfBefore) >= bandPeriod /\ PositiveVolumes(dfBefore)) =>
        \A i \in bandPeriod..NRows(dfBefore) :
            banded.vwap[i] = RefVwap(dfBefore, i, bandPeriod)

\* C6: in the frame the band calculation returns, no bar with index below
\* W-1 (counting from 0) carries a value in any banding field (vwap, std_dev,
\* the four bands): the field is NaN, or, for a series shorter than W, the
\* frame has no such column at all.
C6_NoBandsBeforeWindow ==
    Called =>
        \A i \in 1..NRows(banded) : i < bandPeriod =>
            \A c \in BandColumns : ~HasValue(banded, c, i)

\* Witness: a window of at least two bars was applied to a series at least
\* that long, so the W-th bar has a vwap and the bars before it exist.
C6_Witness ==
    /\ Called /\ bandPeriod >= 2 /\ NRows(banded) >= bandPeriod
    /\ HasValue(banded, "vwap", bandPeriod)
    /\ "vwap" \in DOMAIN banded /\ banded.vwap[1] = NaN

\* C7 (as claimed): after the call the frame object that was passed in holds
\* the same bars and the same columns as before the call.
C7_InputNotMutated == Called => df = dfBefore

(***************************************************************************)
(* Claims about the watchlist files                                        *)
(***************************************************************************)
SameRecord(f, g, name) ==
    /\ FileExists(f, name) <=> FileExists(g, name)
    /\ FileExists(f, name) => f.files[name] = g.files[name]

\* C8 (SpecStore): once save(name, m) has returned, load(name) returns
\* exactly m, whatever the file held before and whatever is done to other
\* names afterwards; a load that is made returns that list; saving m once
\* more gives the same file system; and a save leaves the record of every
\* other name as it was.
C8_SaveLoadRoundTrip ==
    /\ \A n \in Names :
          expect[n] # NoRecord => load_watchlist(fs, n).members = expect[n]
    /\ (lastOp.op = "load" /\ expect[lastOp.name] # NoRecord)
          => lastOp.result = expect[lastOp.name]
    /\ lastOp.op = "save" =>
          /\ save_watchlist(fs, lastOp.name, lastOp.members) = fs
          /\ \A n \in Names \ {lastOp.name} : SameRecord(fs, lastOp.before, n)

\* Witness: a two-member list is loaded back from a name that was saved,
\* while the other name holds a different, non-empty list.
C8_Witness ==
    /\ lastOp.op = "load" /\ Len(lastOp.result) = 2
    /\ expect[lastOp.name] = lastOp.result
    /\ \E n \in Names \ {lastOp.name} :
          /\ expect[n] # NoRecord /\ expect[n] # <<>>
          /\ expect[n] # lastOp.result

\* C9 (as claimed, SpecStore): loading a name that has no stored record
\* fails with NotFoundError.
C9_MissingRaisesNotFound ==
    (lastOp.op = "load" /\ ~FileExists(lastOp.before, lastOp.name))
        => lastOp.error = "NotFoundError"

\* C9, second half (as claimed): a load of a missing name and a load of a
\* stored empty list cannot both give error "none" and the same members.
C9_Distinguishable ==
    \A n \in Names :
        (~FileExists(fs, n) /\ \E o \in Names : FileExists(fs, o) /\ expect[o] = <<>>)
            => \A o \in Names :
                  (FileExists(fs, o) /\ expect[o] = <<>>)
                      => load_watchlist(fs, n) # load_watchlist(fs, o)

\* C10 (as claimed, SpecConc): a load made while a list is stored under the
\* name returns a complete list: the one whose write was completed last or
\* one that a save under way is writing.
C10_AtomicToReaders ==
    (lastOp.op = "load" /\ NoRecord \notin lastOp.allowed)
        => lastOp.result \in lastOp.allowed

(***************************************************************************)
(* Claims about the fetch loop of main() (checked under SpecApp)           *)
(***************************************************************************)
\* The upstream fetch for the ticker was invoked in the last run and failed.
FetchFailed(ticker) ==
    \E k \in 1..Len(lastRun.calls) :
        lastRun.calls[k].ticker = ticker /\ lastRun.calls[k].outcome # "bars"

\* The part of C3 about the shape of the result: one entry per selected
\* ticker, in the order of the selection, whatever failed.
C3_OnePerIdInOrder ==
    lastRun.looped =>
        /\ Len(lastRun.tickers_data) = Len(lastRun.batch)
        /\ \A i \in 1..Len(lastRun.batch) :
              lastRun.tickers_data[i].ticker = lastRun.batch[i]

\* The quote source would have answered the ticker with bars during the
\* last run.
UpstreamServes(ticker) == lastRun.upstream[ticker] = "bars"

\* C3 (as claimed): a run over a batch of 1 to 12 tickers gives one result
\* per ticker in input order; the result of a ticker whose upstream fetch
\* failed has no series (None), and the result of every ticker that the
\* quote source serves at that moment has a series.
C3_PartialFailure ==
    (lastRun.looped /\ Len(lastRun.batch) >= 1 /\ Len(lastRun.batch) <= MaxSelections) =>
        /\ Len(lastRun.tickers_data) = Len(lastRun.batch)
        /\ \A i \in 1..Len(lastRun.batch) :
              /\ lastRun.tickers_data[i].ticker = lastRun.batch[i]
              /\ FetchFailed(lastRun.batch[i]) => lastRun.tickers_data[i].data = None
              /\ UpstreamServes(lastRun.batch[i]) => lastRun.tickers_data[i].data # None

\* C4: no script run loops over more than twelve tickers, and none issues
\* more than twelve upstream fetches: a batch of thirteen is never formed,
\* the multiselect refusing the thirteenth option.
C4_NoThirteenthFetch ==
    /\ Len(selected_stocks) <= MaxSelections
    /\ lastRun.looped =>
          /\ Len(lastRun.batch) <= MaxSelections
          /\ Len(lastRun.calls) <= MaxSelections

\* Witness: a run fetched a full batch of twelve from upstream while a
\* thirteenth option is on offer and the widget refuses it.
C4_Witness ==
    /\ lastRun.looped /\ Len(lastRun.batch) = MaxSelections
    /\ Len(lastRun.calls) = MaxSelections
    /\ ~rerun /\ Addable(multiselect) # {} /\ ~AddAllowed(multiselect)

(***************************************************************************)
(* Claims about the watchlist pick in main() (checked under SpecApp)       *)
(***************************************************************************)
\* The last run loaded a saved list (lines 414-419) and asked for a rerun.
LoadedList == FirstTwelve(load_watchlist(fs, lastRun.loaded).members)

\* C11 (as claimed): the script run that follows the load of a picked
\* watchlist runs its fetch loop over exactly the first twelve members of
\* that watchlist, in stored order.
C11_PickedListFetched ==
    [][(lastRun.loaded # "" /\ lastRun' # lastRun)
          => lastRun'.batch = LoadedList]_vars

====
